---- MODULE Spec2Model ----
(***************************************************************************)
(* A model of the SEON SDK client (src/src/index.ts): the Seon class, its  *)
(* constructor, its public operations and the shared request executor      *)
(* makeApiRequest.  A call is followed from the public method through the  *)
(* three awaits of makeApiRequest (fetch, response.json, response.text)    *)
(* to the settlement of the promise the method returned.                   *)
(*                                                                         *)
(* JavaScript values are tagged records (field t is the type), strings are *)
(* TLA+ strings and template literals are string concatenation.            *)
(***************************************************************************)
EXTENDS Integers, Sequences, FiniteSets, TLC

VARIABLES
    key,                 \* Seon.key
    url,                 \* Seon.url
    enableErrorLogging,  \* Seon.enableErrorLogging
    logger,              \* Seon.logger
    ctorArgs,            \* the arguments the constructor was called with
    processEnv,          \* process.env.NODE_ENV, as it is now
    calls,               \* one record per call of a public operation
    network,             \* the request of each call whose fetch is pending
    nFetch,              \* how often each call has invoked fetch
    logged,              \* the logger invocations, in order
    digests              \* the hmacSha256 calls made, with what they returned

vars ==
    <<key, url, enableErrorLogging, logger, ctorArgs, processEnv, calls, network,
      nFetch, logged, digests>>

config == <<key, url, enableErrorLogging, logger>>

-----------------------------------------------------------------------------
(* Bounds *)

\* The number of calls of public operations that a behaviour issues.
MaxCalls == 1

Calls == 1..MaxCalls

\* The number of calls that are in progress on one client at the same time.
MaxConcurrent == 2

ConcurrentCalls == 1..MaxConcurrent

\* The number of hmacSha256 calls that a behaviour makes.
MaxDigests == 2

-----------------------------------------------------------------------------
(* JavaScript values *)

JUndefined == [t |-> "undefined"]
JNull == [t |-> "null"]
JBool(b) == [t |-> "bool", b |-> b]
JNum(n) == [t |-> "num", n |-> n]
JStr(s) == [t |-> "str", s |-> s]
JArr(a) == [t |-> "arr", a |-> a]
\* An object is the sequence of its <<name, value>> properties, in insertion order.
JObj(p) == [t |-> "obj", p |-> p]
JError(m) == [t |-> "error", message |-> m]
\* A function value: who it is and whether calling it throws.
JFn(name, throws) == [t |-> "fn", name |-> name, throws |-> throws]

\* JavaScript's ToBoolean, as used by || and && and if.
Truthy(v) ==
    CASE v.t = "undefined" -> FALSE
      [] v.t = "null" -> FALSE
      [] v.t = "bool" -> v.b
      [] v.t = "num" -> v.n # 0
      [] v.t = "str" -> v.s # ""
      [] OTHER -> TRUE

\* An array of strings.
StrArr(ss) == JArr([i \in 1..Len(ss) |-> JStr(ss[i])])

-----------------------------------------------------------------------------
(* JSON.stringify, for the values the operations serialize.  Properties    *)
(* whose value is undefined are left out of an object; strings are quoted  *)
(* (the inputs below hold no character that JSON escapes).                 *)

RECURSIVE JSONStringify(_)
RECURSIVE StringifyElements(_, _)
RECURSIVE StringifyProperties(_, _, _)

StringifyElements(a, i) ==
    IF i > Len(a) THEN ""
    ELSE (IF i > 1 THEN "," ELSE "")
         \o (IF a[i].t = "undefined" THEN "null" ELSE JSONStringify(a[i]))
         \o StringifyElements(a, i + 1)

StringifyProperties(p, i, first) ==
    IF i > Len(p) THEN ""
    ELSE IF p[i][2].t \in {"undefined", "fn"} THEN StringifyProperties(p, i + 1, first)
    ELSE (IF first THEN "" ELSE ",")
         \o "\"" \o p[i][1] \o "\":" \o JSONStringify(p[i][2])
         \o StringifyProperties(p, i + 1, FALSE)

JSONStringify(v) ==
    CASE v.t = "null" -> "null"
      [] v.t = "bool" -> IF v.b THEN "true" ELSE "false"
      [] v.t = "num" -> ToString(v.n)
      [] v.t = "str" -> "\"" \o v.s \o "\""
      [] v.t = "arr" -> "[" \o StringifyElements(v.a, 1) \o "]"
      [] v.t = "obj" -> "{" \o StringifyProperties(v.p, 1, TRUE) \o "}"

-----------------------------------------------------------------------------
(* The constructor *)

\* DefaultBaseUrl, had the default been the fraud endpoint itself.
DefaultBaseUrl_FraudApi == "https://api.seon.io/SeonRestService/fraud-api/v2"

\* The default of baseUrl || "https://api.seon.io/SeonRestService"
DefaultBaseUrl == "https://api.seon.io/SeonRestService"

\* The default logger: a wrapper that calls console.error(message, meta).
ConsoleLogger == JFn("console.error", FALSE)

\* this.key = key
CtorKey(a) == a.key

\* this.url = baseUrl || "https://api.seon.io/SeonRestService"
CtorUrl(a) == IF Truthy(a.baseUrl) THEN a.baseUrl.s ELSE DefaultBaseUrl

\* CtorEnableErrorLogging, had the flag always been derived from NODE_ENV.
CtorEnableErrorLogging_EnvOnly(a) == a.nodeEnv # "test"

\* enableErrorLogging: boolean = process.env.NODE_ENV !== "test"
CtorEnableErrorLogging(a) ==
    IF a.enableErrorLogging.t = "undefined"
    THEN a.nodeEnv # "test"
    ELSE a.enableErrorLogging.b

\* CtorLogger, had the logger argument been ignored.
CtorLogger_ConsoleOnly(a) == ConsoleLogger

\* this.logger = logger || ((message, meta) => { console.error(message, meta); })
CtorLogger(a) == IF Truthy(a.logger) THEN a.logger ELSE ConsoleLogger

\* What the constructor may be called with: any string as key, no base URL,
\* the empty string or a custom one, no logging flag or an explicit one, no
\* logger or a custom one (which may throw), under either environment.
KeyArgs == {"test-api-key", ""}
CustomUrl == "https://api.us-east-1-main.seon.io/SeonRestService/fraud-api/v2/"
BaseUrlArgs == {JUndefined, JStr(""), JStr(CustomUrl)}
LoggingArgs == {JUndefined, JBool(TRUE), JBool(FALSE)}
NodeEnvs == {"test", "production"}
CustomLogger == JFn("customLogger", FALSE)
ThrowingLogger == JFn("customLogger", TRUE)
LoggerArgs == {JUndefined, CustomLogger, ThrowingLogger}

ConstructorArgs ==
    [key : KeyArgs, baseUrl : BaseUrlArgs, enableErrorLogging : LoggingArgs,
     logger : LoggerArgs, nodeEnv : NodeEnvs]

\* new Seon(k, baseUrl, flag, lg) with process.env.NODE_ENV = env
NewSeon(k, baseUrl, flag, lg, env) ==
    [key |-> k, baseUrl |-> baseUrl, enableErrorLogging |-> flag, logger |-> lg,
     nodeEnv |-> env]

\* The clients the calls are made on: each argument left out and given,
\* alone and together with the others.
Clients ==
    {NewSeon("test-api-key", JUndefined, JUndefined, JUndefined, "production"),
     NewSeon("test-api-key", JUndefined, JUndefined, JUndefined, "test"),
     NewSeon("test-api-key", JStr(""), JUndefined, JUndefined, "test"),
     NewSeon("test-api-key", JStr(CustomUrl), JBool(TRUE), JUndefined, "test"),
     NewSeon("test-api-key", JStr(CustomUrl), JBool(FALSE), JUndefined, "production"),
     NewSeon("test-api-key", JUndefined, JBool(TRUE), CustomLogger, "test"),
     NewSeon("test-api-key", JStr(CustomUrl), JUndefined, ThrowingLogger, "production"),
     NewSeon("", JStr(CustomUrl), JBool(FALSE), ThrowingLogger, "test")}

\* A call of a public operation that has not been made yet.
NoCall ==
    [pc |-> "idle", op |-> "", args |-> <<>>, fetched |-> JUndefined,
     body |-> JUndefined, result |-> JUndefined]

\* The state right after new Seon(...) with the arguments a.
Constructed(a) ==
    /\ ctorArgs = a
    /\ processEnv = a.nodeEnv
    /\ key = CtorKey(a)
    /\ url = CtorUrl(a)
    /\ enableErrorLogging = CtorEnableErrorLogging(a)
    /\ logger = CtorLogger(a)

\* No call has been made yet.
NoCalls ==
    /\ calls = [c \in Calls |-> NoCall]
    /\ network = [c \in Calls |-> JUndefined]
    /\ nFetch = [c \in Calls |-> 0]
    /\ logged = <<>>
    /\ digests = <<>>

Init == \E a \in Clients : Constructed(a) /\ NoCalls

-----------------------------------------------------------------------------
(* What the caller passes to the operations, and what the service answers *)

TransactionIds == {"txn_123", "a/b?c=d e"}
TagLists == {<<>>, <<"a", "b">>, <<"b", "a">>}
TransactionIdLists == {<<>>, <<"txn_1", "txn_2">>}
FraudRequests ==
    {JObj(<<>>),
     JObj(<< <<"email", JStr("test@example.com")>> >>),
     JObj(<< <<"email", JStr("user@example.com")>>,
             <<"ip", JStr("192.168.1.1")>>,
             <<"transaction_amount", JNum(99)>>,
             <<"phone_number", JUndefined>>,
             <<"custom_fields", JObj(<< <<"is_vip", JBool(TRUE)>> >>)>> >>)}

\* The labels and the lists of { transaction_id, label } that callers assign.
ValidLabels == {"fraud_detection_fraud"}
LabelApiTransaction(transactionId, label) ==
    JObj(<< <<"transaction_id", JStr(transactionId)>>, <<"label", JStr(label)>> >>)
LabelLists ==
    {<<>>,
     <<LabelApiTransaction("txn_1", "fraud_detection_fraud"),
       LabelApiTransaction("txn_2", "fraud_detection_marked_as_approved")>>}

\* The head of a response: fetch resolves to it before the body is read.
Response(ok, status, statusText) ==
    [t |-> "response", ok |-> ok, status |-> status, statusText |-> statusText]
Responses ==
    {Response(TRUE, 200, "OK"),
     Response(FALSE, 401, "Unauthorized"),
     Response(FALSE, 429, "Too Many Requests")}

\* What fetch, response.json() and response.text() reject with.
TransportErrors == {JError("Network error"), JError("Request timeout")}
ParseErrors == {JError("Invalid JSON")}
BodyErrors == {JError("terminated")}
LoggerErrors == {JError("logger failed")}

\* What the body of a 2xx response parses to.
JsonBodies ==
    {JNull,
     JObj(<< <<"unexpected", JStr("structure")>> >>),
     JObj(<< <<"success", JBool(TRUE)>>, <<"error", JObj(<<>>)>>,
             <<"data", JObj(<< <<"tags", StrArr(<<"a", "b">>)>> >>)>> >>)}

\* The raw body text of a non-2xx response.
TextBodies == {"rate limited", ""}

\* The outcome of an awaited promise.
Resolved(v) == [t |-> "resolved", value |-> v]
Rejected(e) == [t |-> "rejected", reason |-> e]

-----------------------------------------------------------------------------
(* makeApiRequest, up to its first await *)

\* headers: { "X-API-KEY": this.key, "Content-Type": ..., "Cache-Control": ... }
Headers ==
    ("X-API-KEY" :> key) @@ ("Content-Type" :> "application/json")
        @@ ("Cache-Control" :> "no-cache")

\* RequestOptions, had it set the content type only on requests with a body.
RequestOptions_ContentTypeWithBody(method, body) ==
    IF Truthy(body) /\ method = "POST"
    THEN ("method" :> method) @@ ("headers" :> Headers)
             @@ ("body" :> JSONStringify(body))
    ELSE ("method" :> method)
             @@ ("headers" :> (("X-API-KEY" :> key) @@ ("Cache-Control" :> "no-cache")))

\* RequestOptions, had a body without properties been left out.
RequestOptions_SkipsEmpty(method, body) ==
    LET requestOptions == ("method" :> method) @@ ("headers" :> Headers)
    IN  IF Truthy(body) /\ method = "POST" /\ JSONStringify(body) # "{}"
        THEN requestOptions @@ ("body" :> JSONStringify(body))
        ELSE requestOptions

\* requestOptions, with the body attached if (body && method === "POST")
RequestOptions(method, body) ==
    LET requestOptions == ("method" :> method) @@ ("headers" :> Headers)
    IN  IF Truthy(body) /\ method = "POST"
        THEN requestOptions @@ ("body" :> JSONStringify(body))
        ELSE requestOptions

Request(u, options) == [t |-> "request", url |-> u, options |-> options]

\* MakeApiRequest, had it shared the fetch of an identical request that is
\* still in flight.
MakeApiRequest_Deduplicated(c, op, args, u, method, body) ==
    /\ calls[c].pc = "idle"
    /\ \A d \in DOMAIN calls : d < c => calls[d].pc # "idle"
    /\ network' = [network EXCEPT ![c] = Request(u, RequestOptions(method, body))]
    /\ nFetch' = [nFetch EXCEPT ![c] =
                     IF \E d \in DOMAIN calls :
                            d # c /\ network[d] = Request(u, RequestOptions(method, body))
                     THEN @ ELSE @ + 1]
    /\ calls' = [calls EXCEPT ![c] = [@ EXCEPT !.pc = "fetch", !.op = op, !.args = args]]
    /\ UNCHANGED <<config, ctorArgs, processEnv, digests, logged>>

\* The synchronous part of makeApiRequest(url, method, body): it builds the
\* request options and invokes fetch, whose promise it then awaits.
MakeApiRequest(c, op, args, u, method, body) ==
    /\ calls[c].pc = "idle"
    /\ \A d \in DOMAIN calls : d < c => calls[d].pc # "idle"
    /\ network' = [network EXCEPT ![c] = Request(u, RequestOptions(method, body))]
    /\ nFetch' = [nFetch EXCEPT ![c] = @ + 1]
    /\ calls' = [calls EXCEPT ![c] = [@ EXCEPT !.pc = "fetch", !.op = op, !.args = args]]
    /\ UNCHANGED <<config, ctorArgs, processEnv, digests, logged>>

-----------------------------------------------------------------------------
(* The public operations *)

\* FraudUrl, had the configured URL been taken for the whole endpoint.
FraudUrl_NoSuffix == url

\* DeleteTagsUrl, had it been copied from addTags with the suffix unchanged.
DeleteTagsUrl_Copied(transactionId) ==
    url \o "/tag-api/v1/tags/" \o transactionId \o "/add"

FraudUrl == url \o "/fraud-api/v2"
AddTagsUrl(transactionId) == url \o "/tag-api/v1/tags/" \o transactionId \o "/add"
UpdateTagsUrl(transactionId) == url \o "/tag-api/v1/tags/" \o transactionId \o "/update"
DeleteTagsUrl(transactionId) == url \o "/tag-api/v1/tags/" \o transactionId \o "/delete"
GetTagsUrl(transactionId) == url \o "/tag-api/v1/tags/" \o transactionId
RemoveAllTagsUrl(transactionId) == url \o "/tag-api/v1/tags/" \o transactionId
BulkAddTagsUrl == url \o "/tag-api/v1/tags/bulk-add"
BulkUpdateTagsUrl == url \o "/tag-api/v1/tags/bulk-update"
BulkDeleteTagsUrl == url \o "/tag-api/v1/tags/bulk-delete"

\* const request: TagApiSingleRequest = { tags }
TagApiSingleRequest(tags) == JObj(<< <<"tags", StrArr(tags)>> >>)

\* TagApiBulkRequest, had the ids been sent under the parameter's own name.
TagApiBulkRequest_CamelCase(transactionIds, tags) ==
    JObj(<< <<"transactionIds", StrArr(transactionIds)>>, <<"tags", StrArr(tags)>> >>)

\* const request: TagApiBulkRequest = { transaction_ids: transactionIds, tags }
TagApiBulkRequest(transactionIds, tags) ==
    JObj(<< <<"transaction_ids", StrArr(transactionIds)>>, <<"tags", StrArr(tags)>> >>)

Fraud(c) ==
    \E request \in FraudRequests :
        MakeApiRequest(c, "fraud", <<request>>, FraudUrl, "POST", request)

AddTags(c) ==
    \E transactionId \in TransactionIds, tags \in TagLists :
        MakeApiRequest(c, "addTags", <<JStr(transactionId), StrArr(tags)>>,
                       AddTagsUrl(transactionId), "POST", TagApiSingleRequest(tags))

UpdateTags(c) ==
    \E transactionId \in TransactionIds, tags \in TagLists :
        MakeApiRequest(c, "updateTags", <<JStr(transactionId), StrArr(tags)>>,
                       UpdateTagsUrl(transactionId), "POST", TagApiSingleRequest(tags))

DeleteTags(c) ==
    \E transactionId \in TransactionIds, tags \in TagLists :
        MakeApiRequest(c, "deleteTags", <<JStr(transactionId), StrArr(tags)>>,
                       DeleteTagsUrl(transactionId), "POST", TagApiSingleRequest(tags))

GetTags(c) ==
    \E transactionId \in TransactionIds :
        MakeApiRequest(c, "getTags", <<JStr(transactionId)>>,
                       GetTagsUrl(transactionId), "GET", JUndefined)

\* RemoveAllTags, had it been copied from getTags with the method unchanged.
RemoveAllTags_Get(c) ==
    \E transactionId \in TransactionIds :
        MakeApiRequest(c, "removeAllTags", <<JStr(transactionId)>>,
                       RemoveAllTagsUrl(transactionId), "GET", JUndefined)

RemoveAllTags(c) ==
    \E transactionId \in TransactionIds :
        MakeApiRequest(c, "removeAllTags", <<JStr(transactionId)>>,
                       RemoveAllTagsUrl(transactionId), "DELETE", JUndefined)

BulkAddTags(c) ==
    \E transactionIds \in TransactionIdLists, tags \in TagLists :
        MakeApiRequest(c, "bulkAddTags", <<StrArr(transactionIds), StrArr(tags)>>,
                       BulkAddTagsUrl, "POST", TagApiBulkRequest(transactionIds, tags))

BulkUpdateTags(c) ==
    \E transactionIds \in TransactionIdLists, tags \in TagLists :
        MakeApiRequest(c, "bulkUpdateTags", <<StrArr(transactionIds), StrArr(tags)>>,
                       BulkUpdateTagsUrl, "POST", TagApiBulkRequest(transactionIds, tags))

BulkDeleteTags(c) ==
    \E transactionIds \in TransactionIdLists, tags \in TagLists :
        MakeApiRequest(c, "bulkDeleteTags", <<StrArr(transactionIds), StrArr(tags)>>,
                       BulkDeleteTagsUrl, "POST", TagApiBulkRequest(transactionIds, tags))

-----------------------------------------------------------------------------
(* Label assignment.  index.ts defines neither labelTransaction nor         *)
(* labelTransactions; they are written here as the specification and        *)
(* label-api.test.ts describe them, thin wrappers like the tag operations   *)
(* that go through makeApiRequest as index.ts has it.                       *)

LabelUrl == url \o "/fraud-api/transaction-label/v2"

\* { transactions }
LabelApiRequest(transactions) == JObj(<< <<"transactions", JArr(transactions)>> >>)

LabelTransaction(c) ==
    \E transactionId \in TransactionIds, label \in ValidLabels :
        MakeApiRequest(c, "labelTransaction", <<JStr(transactionId), JStr(label)>>,
                       LabelUrl, "PUT",
                       LabelApiRequest(<<LabelApiTransaction(transactionId, label)>>))

LabelTransactions(c) ==
    \E transactions \in LabelLists :
        MakeApiRequest(c, "labelTransactions", <<JArr(transactions)>>,
                       LabelUrl, "PUT", LabelApiRequest(transactions))

-----------------------------------------------------------------------------
(* makeApiRequest, after const response = await fetch(url, requestOptions) *)

\* FetchReject, had the await been wrapped in a try/catch that turns the
\* error into a failure envelope.
FetchReject_Caught(c) ==
    /\ calls[c].pc = "fetch"
    /\ \E e \in TransportErrors :
        calls' = [calls EXCEPT ![c] =
                     [@ EXCEPT !.pc = "resolved", !.args = <<>>,
                               !.fetched = Rejected(e),
                               !.result = Resolved(JObj(<< <<"success", JBool(FALSE)>>,
                                   <<"error", JObj(<< <<"network", JStr(e.message)>> >>)>>,
                                   <<"data", JUndefined>> >>))]]
    /\ network' = [network EXCEPT ![c] = JUndefined]
    /\ UNCHANGED <<config, ctorArgs, processEnv, digests, nFetch, logged>>

\* FetchReject, had the library given up on a fetch that is still pending.
FetchReject_TimedOut(c) ==
    /\ calls[c].pc = "fetch"
    /\ calls' = [calls EXCEPT ![c] =
                    [@ EXCEPT !.pc = "rejected", !.args = <<>>,
                              !.result = Rejected(JError("Request timeout"))]]
    /\ UNCHANGED <<config, ctorArgs, processEnv, digests, network, nFetch, logged>>

\* fetch rejects: the await throws, and the rejection leaves makeApiRequest
\* and the public method uncaught.
FetchReject(c) ==
    /\ calls[c].pc = "fetch"
    /\ \E e \in TransportErrors :
        calls' = [calls EXCEPT ![c] = [@ EXCEPT !.pc = "rejected", !.args = <<>>,
                                                !.fetched = Rejected(e),
                                                !.result = Rejected(e)]]
    /\ network' = [network EXCEPT ![c] = JUndefined]
    /\ UNCHANGED <<config, ctorArgs, processEnv, digests, nFetch, logged>>

\* FetchResolve, had a 401 Unauthorized response made the client drop its
\* API key.
FetchResolve_DropsKey(c) ==
    /\ calls[c].pc = "fetch"
    /\ \E response \in Responses :
        /\ calls' = [calls EXCEPT ![c] =
                        [@ EXCEPT !.pc = IF response.ok THEN "json" ELSE "text",
                                  !.args = <<>>,
                                  !.fetched = Resolved(response)]]
        /\ key' = IF response.status = 401 THEN "" ELSE key
    /\ network' = [network EXCEPT ![c] = JUndefined]
    /\ UNCHANGED <<url, enableErrorLogging, logger, ctorArgs, processEnv, digests,
                   nFetch, logged>>

\* FetchResolve, had a non-2xx response been answered from its status line,
\* before its body is read.
FetchResolve_SkipsBody(c) ==
    /\ calls[c].pc = "fetch"
    /\ \E response \in Responses :
        calls' = [calls EXCEPT ![c] =
                     [@ EXCEPT !.pc = IF response.ok THEN "json" ELSE "resolved",
                               !.args = <<>>,
                               !.fetched = Resolved(response),
                               !.result = IF response.ok THEN @
                                          ELSE Resolved(JObj(<<
                                              <<"success", JBool(FALSE)>>,
                                              <<"error", JObj(<< <<response.statusText,
                                                                   JStr("")>> >>)>>,
                                              <<"data", JUndefined>> >>))]]
    /\ network' = [network EXCEPT ![c] = JUndefined]
    /\ UNCHANGED <<config, ctorArgs, processEnv, digests, nFetch, logged>>

\* fetch resolves to a response: if (response.ok) the body is read with
\* response.json(), otherwise with response.text().
FetchResolve(c) ==
    /\ calls[c].pc = "fetch"
    /\ \E response \in Responses :
        calls' = [calls EXCEPT ![c] = [@ EXCEPT !.pc = IF response.ok THEN "json" ELSE "text",
                                                !.args = <<>>,
                                                !.fetched = Resolved(response)]]
    /\ network' = [network EXCEPT ![c] = JUndefined]
    /\ UNCHANGED <<config, ctorArgs, processEnv, digests, nFetch, logged>>

\* SuccessResult, had it defaulted an empty (null) body to an empty envelope.
SuccessResult_Defaulted(json) ==
    IF json.t = "null"
    THEN JObj(<< <<"success", JBool(TRUE)>>, <<"error", JObj(<<>>)>>,
                 <<"data", JUndefined>> >>)
    ELSE json

\* const json = await response.json(); return json as T;
SuccessResult(json) == json

JsonResolve(c) ==
    /\ calls[c].pc = "json"
    /\ \E json \in JsonBodies :
        calls' = [calls EXCEPT ![c] = [@ EXCEPT !.pc = "resolved",
                                                !.body = Resolved(json),
                                                !.result = Resolved(SuccessResult(json))]]
    /\ UNCHANGED <<config, ctorArgs, processEnv, digests, network, nFetch, logged>>

\* JsonReject, had the failure of response.json() been caught and turned
\* into a failure envelope.
JsonReject_Enveloped(c) ==
    /\ calls[c].pc = "json"
    /\ \E e \in ParseErrors \cup BodyErrors :
        calls' = [calls EXCEPT ![c] =
                     [@ EXCEPT !.pc = "resolved",
                               !.body = Rejected(e),
                               !.result = Resolved(JObj(<< <<"success", JBool(FALSE)>>,
                                   <<"error", JObj(<< <<"parse", JStr(e.message)>> >>)>>,
                                   <<"data", JUndefined>> >>))]]
    /\ UNCHANGED <<config, ctorArgs, processEnv, digests, network, nFetch, logged>>

\* response.json() rejects (the body is no JSON, or the connection broke
\* while it was read): the await throws, uncaught.
JsonReject(c) ==
    /\ calls[c].pc = "json"
    /\ \E e \in ParseErrors \cup BodyErrors :
        calls' = [calls EXCEPT ![c] = [@ EXCEPT !.pc = "rejected",
                                                !.body = Rejected(e),
                                                !.result = Rejected(e)]]
    /\ UNCHANGED <<config, ctorArgs, processEnv, digests, network, nFetch, logged>>

\* ErrorKey, had it left the status text out of the key.
ErrorKey_StatusOnly(response) == ToString(response.status)

\* [`${response.status} - ${response.statusText}`]
ErrorKey(response) == ToString(response.status) \o " - " \o response.statusText

\* ErrorResult, had data been set to null.
ErrorResult_NullData(response, text) ==
    JObj(<< <<"success", JBool(FALSE)>>,
            <<"error", JObj(<< <<ErrorKey(response), JStr(text)>> >>)>>,
            <<"data", JNull>> >>)

\* return { success: false, error: { [key]: text }, data: undefined } as T;
ErrorResult(response, text) ==
    JObj(<< <<"success", JBool(FALSE)>>,
            <<"error", JObj(<< <<ErrorKey(response), JStr(text)>> >>)>>,
            <<"data", JUndefined>> >>)

\* LoggerCall, had the logger been given status, statusText and text.
LoggerCall_ThreeArgs(c, response, text) ==
    [call |-> c, sink |-> logger.name,
     args |-> <<JNum(response.status), JStr(response.statusText), JStr(text)>>]

\* this.logger(text, { status: response.status, statusText: response.statusText });
\* the default logger passes its two arguments on to console.error.
LoggerCall(c, response, text) ==
    [call |-> c, sink |-> logger.name,
     args |-> <<JStr(text),
                JObj(<< <<"status", JNum(response.status)>>,
                        <<"statusText", JStr(response.statusText)>> >>)>>]

\* TextResolve, had the logger been called inside a try/catch.
TextResolve_LoggerGuarded(c) ==
    /\ calls[c].pc = "text"
    /\ \E text \in TextBodies :
        LET response == calls[c].fetched.value
        IN  /\ logged' = IF enableErrorLogging
                         THEN Append(logged, LoggerCall(c, response, text))
                         ELSE logged
            /\ calls' = [calls EXCEPT ![c] =
                            [@ EXCEPT !.pc = "resolved",
                                      !.body = Resolved(JStr(text)),
                                      !.result = Resolved(ErrorResult(response, text))]]
    /\ UNCHANGED <<config, ctorArgs, processEnv, digests, network, nFetch>>

\* TextResolve, had the envelope recorded that the failure was logged.
TextResolve_MarksLogged(c) ==
    /\ calls[c].pc = "text"
    /\ \E text \in TextBodies, e \in LoggerErrors :
        LET response == calls[c].fetched.value
            thrown == enableErrorLogging /\ logger.throws
            result == IF enableErrorLogging
                      THEN JObj(ErrorResult(response, text).p \o << <<"logged", JBool(TRUE)>> >>)
                      ELSE ErrorResult(response, text)
        IN  /\ logged' = IF enableErrorLogging
                         THEN Append(logged, LoggerCall(c, response, text))
                         ELSE logged
            /\ calls' = [calls EXCEPT ![c] =
                            [@ EXCEPT !.pc = IF thrown THEN "rejected" ELSE "resolved",
                                      !.body = Resolved(JStr(text)),
                                      !.result = IF thrown THEN Rejected(e)
                                                 ELSE Resolved(result)]]
    /\ UNCHANGED <<config, ctorArgs, processEnv, digests, network, nFetch>>

\* TextResolve, had a non-2xx response been thrown as an error.
TextResolve_Throws(c) ==
    /\ calls[c].pc = "text"
    /\ \E text \in TextBodies :
        LET response == calls[c].fetched.value
        IN  /\ logged' = IF enableErrorLogging
                         THEN Append(logged, LoggerCall(c, response, text))
                         ELSE logged
            /\ calls' = [calls EXCEPT ![c] =
                            [@ EXCEPT !.pc = "rejected",
                                      !.body = Resolved(JStr(text)),
                                      !.result = Rejected(JError(text))]]
    /\ UNCHANGED <<config, ctorArgs, processEnv, digests, network, nFetch>>

\* TextResolve, had the logger been called whatever enableErrorLogging is.
TextResolve_AlwaysLogs(c) ==
    /\ calls[c].pc = "text"
    /\ \E text \in TextBodies, e \in LoggerErrors :
        LET response == calls[c].fetched.value
            thrown == logger.throws
        IN  /\ logged' = Append(logged, LoggerCall(c, response, text))
            /\ calls' = [calls EXCEPT ![c] =
                            [@ EXCEPT !.pc = IF thrown THEN "rejected" ELSE "resolved",
                                      !.body = Resolved(JStr(text)),
                                      !.result = IF thrown THEN Rejected(e)
                                                 ELSE Resolved(ErrorResult(response, text))]]
    /\ UNCHANGED <<config, ctorArgs, processEnv, digests, network, nFetch>>

\* const text = await response.text() resolves: the logger is called if
\* (this.enableErrorLogging), and the failure envelope is returned unless
\* the logger threw.  Nothing is awaited in between.
TextResolve(c) ==
    /\ calls[c].pc = "text"
    /\ \E text \in TextBodies, e \in LoggerErrors :
        LET response == calls[c].fetched.value
            thrown == enableErrorLogging /\ logger.throws
        IN  /\ logged' = IF enableErrorLogging
                         THEN Append(logged, LoggerCall(c, response, text))
                         ELSE logged
            /\ calls' = [calls EXCEPT ![c] =
                            [@ EXCEPT !.pc = IF thrown THEN "rejected" ELSE "resolved",
                                      !.body = Resolved(JStr(text)),
                                      !.result = IF thrown THEN Rejected(e)
                                                 ELSE Resolved(ErrorResult(response, text))]]
    /\ UNCHANGED <<config, ctorArgs, processEnv, digests, network, nFetch>>

\* TextReject, had a broken body read been retried with a second fetch.
TextReject_Retried(c) ==
    /\ calls[c].pc = "text"
    /\ nFetch[c] < 2
    /\ calls' = [calls EXCEPT ![c] = [@ EXCEPT !.pc = "fetch", !.fetched = JUndefined]]
    /\ network' = [network EXCEPT ![c] = Request(url, RequestOptions("GET", JUndefined))]
    /\ nFetch' = [nFetch EXCEPT ![c] = @ + 1]
    /\ UNCHANGED <<config, ctorArgs, processEnv, digests, logged>>

\* response.text() rejects (the connection broke while the body was read).
TextReject(c) ==
    /\ calls[c].pc = "text"
    /\ \E e \in BodyErrors :
        calls' = [calls EXCEPT ![c] = [@ EXCEPT !.pc = "rejected",
                                                !.body = Rejected(e),
                                                !.result = Rejected(e)]]
    /\ UNCHANGED <<config, ctorArgs, processEnv, digests, network, nFetch, logged>>

-----------------------------------------------------------------------------

\* One step of the call c: an operation is called, or one of its awaits
\* settles.
Step(c) ==
    \/ Fraud(c)
    \/ AddTags(c)
    \/ UpdateTags(c)
    \/ DeleteTags(c)
    \/ GetTags(c)
    \/ RemoveAllTags(c)
    \/ BulkAddTags(c)
    \/ BulkUpdateTags(c)
    \/ BulkDeleteTags(c)
    \/ LabelTransaction(c)
    \/ LabelTransactions(c)
    \/ FetchReject(c)
    \/ FetchResolve(c)
    \/ JsonResolve(c)
    \/ JsonReject(c)
    \/ TextResolve(c)
    \/ TextReject(c)

Next == \E c \in Calls : Step(c)

Spec == Init /\ [][Next]_vars

-----------------------------------------------------------------------------
(* Several calls in progress on one client *)

\* A client on which no call has been made yet, with room for
\* MaxConcurrent calls.
InitConc ==
    /\ \E a \in Clients : Constructed(a)
    /\ calls = [c \in ConcurrentCalls |-> NoCall]
    /\ network = [c \in ConcurrentCalls |-> JUndefined]
    /\ nFetch = [c \in ConcurrentCalls |-> 0]
    /\ logged = <<>>
    /\ digests = <<>>

\* fraud and getTags calls are made and their awaits settle, in any
\* interleaving.
StepConc(c) ==
    \/ Fraud(c)
    \/ GetTags(c)
    \/ FetchReject(c)
    \/ FetchResolve(c)
    \/ JsonResolve(c)
    \/ JsonReject(c)
    \/ TextResolve(c)
    \/ TextReject(c)

NextConc == \E c \in ConcurrentCalls : StepConc(c)

SpecConc == InitConc /\ [][NextConc]_vars

-----------------------------------------------------------------------------
(* hmacSha256 *)

\* createHmac, update and digest belong to Node's crypto module.  What they
\* compute is kept as the term of its inputs: two digests are equal only if
\* algorithm, key, data and encoding are.
CreateHmac(algorithm, k) == [algorithm |-> algorithm, key |-> k, data |-> ""]
HmacUpdate(hmac, data) == [hmac EXCEPT !.data = @ \o data]
HmacDigest(hmac, encoding) ==
    [t |-> "digest", encoding |-> encoding, algorithm |-> hmac.algorithm,
     key |-> hmac.key, data |-> hmac.data]

\* HmacKey, had a missing key been turned into a string as it is.
HmacKey_Coerced(k) == IF k = JUndefined THEN "undefined" ELSE k.s

\* key: string = "": the default is taken when the argument is undefined.
HmacKey(k) == IF k = JUndefined THEN "" ELSE k.s

\* createHmac("sha256", key), hmac.update(message), hmac.digest("hex")
hmacSha256(message, k) ==
    HmacDigest(HmacUpdate(CreateHmac("sha256", HmacKey(k)), message), "hex")

Messages == {"", "test message", "Test Message"}
HmacKeyArgs == {JUndefined, JStr(""), JStr("secret-key"), JStr("Secret-Key")}

\* A caller signs a message, with or without a key.
HmacSha256Call ==
    /\ Len(digests) < MaxDigests
    /\ \E message \in Messages, k \in HmacKeyArgs :
        digests' = Append(digests, [message |-> message, key |-> k,
                                    digest |-> hmacSha256(message, k)])
    /\ UNCHANGED <<config, ctorArgs, processEnv, calls, network, nFetch, logged>>

NextHmac == HmacSha256Call

SpecHmac == Init /\ [][NextHmac]_vars

-----------------------------------------------------------------------------
(* Construction under every combination of arguments *)

\* process.env.NODE_ENV is changed after the client was constructed.
SetNodeEnv ==
    /\ \E env \in NodeEnvs :
        /\ env # processEnv
        /\ processEnv' = env
    /\ UNCHANGED <<config, ctorArgs, calls, network, nFetch, logged, digests>>

\* new Seon(key, baseUrl, enableErrorLogging, logger) with any of the
\* arguments the constructor accepts.
InitCtor == \E a \in ConstructorArgs : Constructed(a) /\ NoCalls

\* The client makes its first call while the environment may change.
NextCtor == SetNodeEnv \/ Step(1)

SpecCtor == InitCtor /\ [][NextCtor]_vars

-----------------------------------------------------------------------------
(* Reading JavaScript objects, for the properties below *)

\* Object.keys(o), in order.
ObjectKeys(o) == [i \in 1..Len(o.p) |-> o.p[i][1]]

\* o[name], undefined when o has no such property.
RECURSIVE PropertyFrom(_, _, _)
PropertyFrom(o, name, i) ==
    IF i > Len(o.p) THEN JUndefined
    ELSE IF o.p[i][1] = name THEN o.p[i][2]
    ELSE PropertyFrom(o, name, i + 1)
Property(o, name) == PropertyFrom(o, name, 1)

\* v is { success: false, error: { "<status> - <statusText>": text }, data: undefined }
IsFailureEnvelope(v, status, statusText, text) ==
    /\ v.t = "obj"
    /\ Property(v, "success") = JBool(FALSE)
    /\ Property(v, "data") = JUndefined
    /\ Property(v, "error").t = "obj"
    /\ ObjectKeys(Property(v, "error")) = <<ToString(status) \o " - " \o statusText>>
    /\ Property(v, "error").p[1][2] = JStr(text)

PublicOperations ==
    {"fraud", "addTags", "updateTags", "deleteTags", "getTags", "removeAllTags",
     "bulkAddTags", "bulkUpdateTags", "bulkDeleteTags"}

\* The call c received a non-2xx response and read its body text.
ReadErrorText(c) ==
    /\ calls[c].op \in PublicOperations
    /\ calls[c].fetched.t = "resolved"
    /\ ~calls[c].fetched.value.ok
    /\ calls[c].body.t = "resolved"

\* The logger throws when it is called, and it is called.
LoggerFails == enableErrorLogging /\ logger.throws

-----------------------------------------------------------------------------
(* C1 *)

\* C1 as stated: for every public operation and every response with ok =
\* false, status s, statusText t and body text b, the call resolves to an
\* envelope with success = false, data = undefined and error = { "s - t": b }.
\* It fails when logging is enabled and the logger throws: the call rejects.
C1_AsStated ==
    \A c \in Calls :
        ReadErrorText(c) =>
            /\ calls[c].result.t = "resolved"
            /\ IsFailureEnvelope(calls[c].result.value,
                                 calls[c].fetched.value.status,
                                 calls[c].fetched.value.statusText,
                                 calls[c].body.value.s)

\* C1, amended: for every public operation and every response with ok =
\* false, status s, statusText t and body text b, unless error logging is
\* enabled and the logger throws, the call resolves (does not reject) to an
\* envelope with success = false, data = undefined and an error map whose
\* key set is exactly {"s - t"}, that key mapped to b.
C1_FailureEnvelope ==
    \A c \in Calls :
        (ReadErrorText(c) /\ ~LoggerFails) =>
            /\ calls[c].pc = "resolved"
            /\ calls[c].result.t = "resolved"
            /\ IsFailureEnvelope(calls[c].result.value,
                                 calls[c].fetched.value.status,
                                 calls[c].fetched.value.statusText,
                                 calls[c].body.value.s)

\* A removeAllTags call answered 429 Too Many Requests with body "rate
\* limited", on a client that logs, has resolved.
C1_Witness ==
    \E c \in Calls :
        /\ calls[c].op = "removeAllTags"
        /\ ReadErrorText(c)
        /\ enableErrorLogging
        /\ calls[c].fetched.value.status = 429
        /\ calls[c].body.value = JStr("rate limited")
        /\ calls[c].result.t = "resolved"
        /\ Property(calls[c].result.value, "error") =
               JObj(<< <<"429 - Too Many Requests", JStr("rate limited")>> >>)

-----------------------------------------------------------------------------
(* C2 *)

\* The call c received a 2xx response whose body parsed as JSON.
ParsedJson(c) ==
    /\ calls[c].op \in PublicOperations
    /\ calls[c].fetched.t = "resolved"
    /\ calls[c].fetched.value.ok
    /\ calls[c].body.t = "resolved"

\* C2: for every public operation and every response with ok = true whose
\* body parses to a value v, the call resolves to exactly v; nothing is
\* added, removed or defaulted, also when v is null or has not the
\* {success, error, data} shape.
C2_IdentityOnSuccess ==
    \A c \in Calls :
        ParsedJson(c) =>
            /\ calls[c].pc = "resolved"
            /\ calls[c].result = Resolved(calls[c].body.value)

\* A bulkUpdateTags call whose 2xx body parsed to null has resolved to null.
C2_Witness ==
    \E c \in Calls :
        /\ calls[c].op = "bulkUpdateTags"
        /\ ParsedJson(c)
        /\ calls[c].body.value = JNull
        /\ calls[c].result = Resolved(JNull)

-----------------------------------------------------------------------------
(* C3 *)

\* C3: for every public operation, if fetch rejects with error e, the
\* promise the operation returned rejects with that same e and never
\* resolves to an envelope.
C3_TransportErrorPropagates ==
    \A c \in Calls :
        (calls[c].op \in PublicOperations /\ calls[c].fetched.t = "rejected") =>
            /\ calls[c].pc = "rejected"
            /\ calls[c].result = Rejected(calls[c].fetched.reason)

\* The fetch of a getTags call was rejected with "Request timeout", and so
\* was the call.
C3_Witness ==
    \E c \in Calls :
        /\ calls[c].op = "getTags"
        /\ calls[c].fetched = Rejected(JError("Request timeout"))
        /\ calls[c].result = Rejected(JError("Request timeout"))

-----------------------------------------------------------------------------
(* C4 *)

\* C4: every call of a public operation invokes fetch exactly once, whatever
\* its outcome (success, non-2xx response, JSON parse failure, transport
\* rejection); no call is retried.
C4_ExactlyOneFetch ==
    \A c \in Calls :
        /\ calls[c].pc = "idle" => nFetch[c] = 0
        /\ calls[c].pc # "idle" => nFetch[c] = 1

\* A call has been rejected because its 2xx body was no JSON, after one fetch.
C4_Witness ==
    \E c \in Calls :
        /\ calls[c].pc = "rejected"
        /\ calls[c].fetched.t = "resolved"
        /\ calls[c].body = Rejected(JError("Invalid JSON"))
        /\ nFetch[c] = 1

-----------------------------------------------------------------------------
(* C5 *)

\* C5: every request sent by any operation, the body-less GET and DELETE
\* requests included, carries exactly the three headers X-API-KEY = the key
\* given to the constructor, Content-Type = application/json and
\* Cache-Control = no-cache.
C5_StandardHeaders ==
    \A c \in Calls :
        /\ calls[c].pc = "fetch" => network[c].t = "request"
        /\ network[c].t = "request" =>
            LET headers == network[c].options["headers"]
            IN  /\ DOMAIN headers = {"X-API-KEY", "Content-Type", "Cache-Control"}
                /\ headers["X-API-KEY"] = ctorArgs.key
                /\ headers["Content-Type"] = "application/json"
                /\ headers["Cache-Control"] = "no-cache"

\* A GET request, without a body, is in flight on a client whose key is the
\* empty string.
C5_Witness ==
    \E c \in Calls :
        /\ network[c].t = "request"
        /\ network[c].options["method"] = "GET"
        /\ "body" \notin DOMAIN network[c].options
        /\ ctorArgs.key = ""

-----------------------------------------------------------------------------
(* The requests of C6 to C10, written out *)

\* The JSON text of a list of strings, for the lists the callers pass.
ListJson(ss) ==
    CASE ss = <<>> -> "[]"
      [] ss = <<"a", "b">> -> "[\"a\",\"b\"]"
      [] ss = <<"b", "a">> -> "[\"b\",\"a\"]"
      [] ss = <<"txn_1", "txn_2">> -> "[\"txn_1\",\"txn_2\"]"

\* The JSON text of the fraud requests the callers pass.
FraudJson(request) ==
    CASE request = JObj(<<>>) -> "{}"
      [] request = JObj(<< <<"email", JStr("test@example.com")>> >>) ->
            "{\"email\":\"test@example.com\"}"
      [] OTHER ->
            "{\"email\":\"user@example.com\",\"ip\":\"192.168.1.1\","
                \o "\"transaction_amount\":99,\"custom_fields\":{\"is_vip\":true}}"

StandardHeaders ==
    ("X-API-KEY" :> ctorArgs.key) @@ ("Content-Type" :> "application/json")
        @@ ("Cache-Control" :> "no-cache")

\* The request of method, URL and body text, with the three standard headers.
RequestWithBody(method, u, text) ==
    [t |-> "request", url |-> u,
     options |-> ("method" :> method) @@ ("headers" :> StandardHeaders)
                     @@ ("body" :> text)]

\* The same without a body.
RequestWithoutBody(method, u) ==
    [t |-> "request", url |-> u,
     options |-> ("method" :> method) @@ ("headers" :> StandardHeaders)]

\* The call c of operation op with the arguments args has sent its request.
Sent(c, op, args) ==
    calls[c].pc = "fetch" /\ calls[c].op = op /\ calls[c].args = args

\* The call c of one of the operations ops has sent its request.
SentOneOf(c, ops) == calls[c].pc = "fetch" /\ calls[c].op \in ops

\* The strings of an array of strings.
Strings(arr) == [i \in 1..Len(arr.a) |-> arr.a[i].s]

-----------------------------------------------------------------------------
(* C6 *)

-----------------------------------------------------------------------------
(* C7 *)

\* C7: when a client is constructed with a custom URL U, fraud(request)
\* sends its POST to exactly U, with no path suffix appended.  The tests of
\* the regional endpoints and the README say so; the code appends
\* "/fraud-api/v2" to U.
C7_FraudUrlIsCustomUrl ==
    \A c \in Calls :
        (calls[c].pc = "fetch" /\ calls[c].op = "fraud" /\ Truthy(ctorArgs.baseUrl)) =>
            /\ network[c].options["method"] = "POST"
            /\ network[c].url = ctorArgs.baseUrl.s

-----------------------------------------------------------------------------
(* C8 *)

\* C8: for every transaction id and tag list, addTags / updateTags /
\* deleteTags(id, tags) send a POST to base + "/tag-api/v1/tags/" + id +
\* "/add" / "/update" / "/delete" respectively, with body {"tags": tags}
\* (tags in the given order) and the three standard headers; the id is
\* inserted unescaped.
C8_SingleTagRequests ==
    \A c \in Calls :
        SentOneOf(c, {"addTags", "updateTags", "deleteTags"}) =>
            LET id == calls[c].args[1].s
                tags == Strings(calls[c].args[2])
                suffix == CASE calls[c].op = "addTags" -> "/add"
                            [] calls[c].op = "updateTags" -> "/update"
                            [] calls[c].op = "deleteTags" -> "/delete"
            IN  network[c] =
                    RequestWithBody("POST", url \o "/tag-api/v1/tags/" \o id \o suffix,
                                    "{\"tags\":" \o ListJson(tags) \o "}")

\* deleteTags("a/b?c=d e", ["b", "a"]) has sent its request, the id as given.
C8_Witness ==
    \E c \in Calls :
        /\ Sent(c, "deleteTags", <<JStr("a/b?c=d e"), StrArr(<<"b", "a">>)>>)
        /\ url = DefaultBaseUrl
        /\ network[c].url =
               "https://api.seon.io/SeonRestService/tag-api/v1/tags/a/b?c=d e/delete"
        /\ network[c].options["body"] = "{\"tags\":[\"b\",\"a\"]}"

-----------------------------------------------------------------------------
(* C9 *)

\* C9: getTags(id) and removeAllTags(id) target the same URL base +
\* "/tag-api/v1/tags/" + id and differ only in the method: getTags sends
\* GET, removeAllTags sends DELETE; neither request has a body.
C9_GetAndRemoveAll ==
    \A c \in Calls :
        SentOneOf(c, {"getTags", "removeAllTags"}) =>
            LET id == calls[c].args[1].s
                method == IF calls[c].op = "getTags" THEN "GET" ELSE "DELETE"
            IN  network[c] = RequestWithoutBody(method, url \o "/tag-api/v1/tags/" \o id)

\* removeAllTags("txn_123") has sent a DELETE without a body.
C9_Witness ==
    \E c \in Calls :
        /\ Sent(c, "removeAllTags", <<JStr("txn_123")>>)
        /\ network[c].options["method"] = "DELETE"
        /\ DOMAIN network[c].options = {"method", "headers"}

-----------------------------------------------------------------------------
(* C10 *)

\* C10: bulkAddTags / bulkUpdateTags / bulkDeleteTags(transactionIds, tags)
\* send a POST to base + "/tag-api/v1/tags/bulk-add" / "bulk-update" /
\* "bulk-delete" respectively, with body {"transaction_ids": transactionIds,
\* "tags": tags}; no transaction id appears in the URL.
C10_BulkTagRequests ==
    \A c \in Calls :
        SentOneOf(c, {"bulkAddTags", "bulkUpdateTags", "bulkDeleteTags"}) =>
            LET ids == Strings(calls[c].args[1])
                tags == Strings(calls[c].args[2])
                path == CASE calls[c].op = "bulkAddTags" -> "/tag-api/v1/tags/bulk-add"
                          [] calls[c].op = "bulkUpdateTags" -> "/tag-api/v1/tags/bulk-update"
                          [] calls[c].op = "bulkDeleteTags" -> "/tag-api/v1/tags/bulk-delete"
            IN  network[c] =
                    RequestWithBody("POST", url \o path,
                                    "{\"transaction_ids\":" \o ListJson(ids)
                                        \o ",\"tags\":" \o ListJson(tags) \o "}")

\* bulkUpdateTags(["txn_1", "txn_2"], ["a", "b"]) has sent its request.
C10_Witness ==
    \E c \in Calls :
        /\ Sent(c, "bulkUpdateTags", <<StrArr(<<"txn_1", "txn_2">>), StrArr(<<"a", "b">>)>>)
        /\ network[c].url = url \o "/tag-api/v1/tags/bulk-update"
        /\ network[c].options["body"] =
               "{\"transaction_ids\":[\"txn_1\",\"txn_2\"],\"tags\":[\"a\",\"b\"]}"

-----------------------------------------------------------------------------
(* C11 *)

\* The JSON text of the lists of { transaction_id, label } the callers pass.
LabelListJson(transactions) ==
    IF transactions = <<>> THEN "[]"
    ELSE "[{\"transaction_id\":\"txn_1\",\"label\":\"fraud_detection_fraud\"},"
             \o "{\"transaction_id\":\"txn_2\","
             \o "\"label\":\"fraud_detection_marked_as_approved\"}]"

\* C11: labelTransaction(id, label) and labelTransactions(list) each send
\* exactly one PUT to base + "/fraud-api/transaction-label/v2" with the three
\* standard headers and body {"transactions": [...]} (for labelTransaction
\* the one-element list [{transaction_id: id, label}]), and a non-2xx
\* response is normalized into the failure envelope of the other operations.
\* makeApiRequest attaches a body to a POST only, so the PUT goes out
\* without one.
C11_LabelRequests ==
    \A c \in Calls :
        /\ calls[c].op \in {"labelTransaction", "labelTransactions"} => nFetch[c] = 1
        /\ SentOneOf(c, {"labelTransaction"}) =>
            network[c] =
                RequestWithBody("PUT", url \o "/fraud-api/transaction-label/v2",
                    "{\"transactions\":[{\"transaction_id\":\"" \o calls[c].args[1].s
                        \o "\",\"label\":\"" \o calls[c].args[2].s \o "\"}]}")
        /\ SentOneOf(c, {"labelTransactions"}) =>
            network[c] =
                RequestWithBody("PUT", url \o "/fraud-api/transaction-label/v2",
                    "{\"transactions\":" \o LabelListJson(calls[c].args[1].a) \o "}")
        /\ ( /\ calls[c].op \in {"labelTransaction", "labelTransactions"}
             /\ calls[c].fetched.t = "resolved"
             /\ ~calls[c].fetched.value.ok
             /\ calls[c].body.t = "resolved"
             /\ ~LoggerFails ) =>
            /\ calls[c].result.t = "resolved"
            /\ IsFailureEnvelope(calls[c].result.value,
                                 calls[c].fetched.value.status,
                                 calls[c].fetched.value.statusText,
                                 calls[c].body.value.s)

-----------------------------------------------------------------------------
(* C12 *)

-----------------------------------------------------------------------------
(* C13 *)

\* C13: for every base URL string explicitly passed to the constructor,
\* the empty string and strings ending in a slash included, the client's
\* url equals that string verbatim, with no normalization and no fallback to
\* the default.  The empty string is falsy, so baseUrl || default replaces it
\* by the default.
C13_ExplicitUrlVerbatim ==
    ctorArgs.baseUrl.t = "str" => url = ctorArgs.baseUrl.s

-----------------------------------------------------------------------------
(* C14 *)

\* The places in the log of the logger calls made in the call c.
LoggedIn(c) == {i \in 1..Len(logged) : logged[i].call = c}

\* The two arguments (b, {status: s, statusText: t}).
TextAndMeta(b, s, t) ==
    <<JStr(b), JObj(<< <<"status", JNum(s)>>, <<"statusText", JStr(t)>> >>)>>

-----------------------------------------------------------------------------
(* C15 *)

\* C15: when error logging is enabled and fraud() receives a non-2xx
\* response, console.error is called with the three arguments (status,
\* statusText, body text).  The default logger calls
\* console.error(message, meta) with the two arguments it was given.
C15_ConsoleErrorThreeArgs ==
    \A c \in Calls :
        ( /\ enableErrorLogging
          /\ logger = ConsoleLogger
          /\ ReadErrorText(c)
          /\ calls[c].op = "fraud" ) =>
            \E i \in LoggedIn(c) :
                /\ logged[i].sink = "console.error"
                /\ logged[i].args = <<JNum(calls[c].fetched.value.status),
                                      JStr(calls[c].fetched.value.statusText),
                                      calls[c].body.value>>

-----------------------------------------------------------------------------
(* C16 *)

\* C16: the logger is invoked only in a call whose response is non-2xx on a
\* client with logging enabled: never when logging is disabled, never on a
\* 2xx response, never when fetch rejects; in a single call it is invoked at
\* most once.
C16_LoggerOnlyOnFailure ==
    /\ \A i \in 1..Len(logged) :
        /\ enableErrorLogging
        /\ calls[logged[i].call].fetched.t = "resolved"
        /\ ~calls[logged[i].call].fetched.value.ok
    /\ \A c \in Calls : Cardinality(LoggedIn(c)) <= 1

C16_Witness ==
    \E c \in Calls :
        /\ ~enableErrorLogging
        /\ ReadErrorText(c)
        /\ calls[c].pc = "resolved"
        /\ logged = <<>>

-----------------------------------------------------------------------------
(* C17 *)

-----------------------------------------------------------------------------
(* C18 *)

\* C18: when the logging flag is omitted at construction, logging is
\* enabled if and only if NODE_ENV was not "test" when the client was
\* constructed, whatever NODE_ENV is afterwards; an explicitly passed flag
\* (true or false) overrides the environment.  A call that reads the text
\* of a non-2xx response logs exactly when logging is enabled in this sense.
C18_LoggingFlag ==
    LET enabled == IF ctorArgs.enableErrorLogging = JUndefined
                   THEN ctorArgs.nodeEnv # "test"
                   ELSE ctorArgs.enableErrorLogging = JBool(TRUE)
    IN  /\ enableErrorLogging = enabled
        /\ \A c \in Calls : ReadErrorText(c) => (enabled <=> LoggedIn(c) # {})

C18_Witness ==
    /\ ctorArgs.enableErrorLogging = JUndefined
    /\ ctorArgs.nodeEnv = "test"
    /\ processEnv = "production"
    /\ \E c \in Calls : ReadErrorText(c) /\ LoggedIn(c) = {}

-----------------------------------------------------------------------------
(* C19 *)

\* v has the properties of the envelope: a boolean success and an error map.
HasEnvelopeShape(v) ==
    /\ v.t = "obj"
    /\ Property(v, "success").t = "bool"
    /\ Property(v, "error").t = "obj"

\* The envelope invariant: if success is true then error is empty and data
\* holds the payload; if success is false then data is absent and error has
\* exactly one entry.
EnvelopeInvariant(v) ==
    /\ HasEnvelopeShape(v)
    /\ Property(v, "success") = JBool(TRUE) =>
        /\ Len(Property(v, "error").p) = 0
        /\ Property(v, "data") # JUndefined
    /\ Property(v, "success") = JBool(FALSE) =>
        /\ Property(v, "data") = JUndefined
        /\ Len(Property(v, "error").p) = 1

\* C19 as stated: every value an operation resolves to satisfies the
\* envelope invariant, the one entry of a failure's error being keyed
\* "<status> - <statusText>".  It fails on a 2xx response whose body is null
\* or has another structure: the body is returned as it is.
C19_AsStated ==
    \A c \in Calls :
        calls[c].result.t = "resolved" =>
            /\ EnvelopeInvariant(calls[c].result.value)
            /\ Property(calls[c].result.value, "success") = JBool(FALSE) =>
                ObjectKeys(Property(calls[c].result.value, "error"))
                    = <<ToString(calls[c].fetched.value.status) \o " - "
                            \o calls[c].fetched.value.statusText>>

\* C19: every value resolved on a non-2xx response satisfies the envelope
\* invariant with success false, data absent and one error entry keyed
\* "<status> - <statusText>"; a value resolved on a 2xx response is the
\* parsed body itself, and satisfies the invariant exactly if that body does.
C19_EnvelopeInvariant ==
    \A c \in Calls :
        calls[c].result.t = "resolved" =>
            /\ ~calls[c].fetched.value.ok =>
                /\ EnvelopeInvariant(calls[c].result.value)
                /\ Property(calls[c].result.value, "success") = JBool(FALSE)
                /\ ObjectKeys(Property(calls[c].result.value, "error"))
                       = <<ToString(calls[c].fetched.value.status) \o " - "
                               \o calls[c].fetched.value.statusText>>
            /\ calls[c].fetched.value.ok =>
                /\ calls[c].result.value = calls[c].body.value
                /\ EnvelopeInvariant(calls[c].result.value)
                       <=> EnvelopeInvariant(calls[c].body.value)

C19_Witness ==
    \E c \in Calls :
        /\ calls[c].result.t = "resolved"
        /\ calls[c].fetched.value.status = 401
        /\ EnvelopeInvariant(calls[c].result.value)
        /\ Property(calls[c].result.value, "data") = JUndefined

-----------------------------------------------------------------------------
(* C20 *)

\* C20 as stated: apart from a network or transport failure of the HTTP
\* call (here: fetch rejected, or the body could not be read or parsed),
\* every call of a public operation resolves and never rejects, and the
\* value it resolves to has the {success, error, data} envelope shape.  It
\* fails when the logger throws (the call rejects) and on a 2xx response
\* whose body has another shape.
C20_AsStated ==
    \A c \in Calls :
        ( /\ calls[c].op \in PublicOperations
          /\ calls[c].fetched.t = "resolved"
          /\ calls[c].body.t = "resolved" ) =>
            /\ calls[c].result.t = "resolved"
            /\ HasEnvelopeShape(calls[c].result.value)

\* C20: a call of a public operation rejects only if fetch rejected, the
\* body could not be read or parsed, or the response was non-2xx and the
\* logger threw; in every other case it resolves, on a non-2xx response to
\* a value of the {success, error, data} envelope shape and on a 2xx
\* response to the parsed body, whatever its shape.
C20_ResolvesUnlessFailure ==
    \A c \in Calls :
        calls[c].op \in PublicOperations =>
            /\ calls[c].result.t = "rejected" =>
                \/ calls[c].fetched.t = "rejected"
                \/ calls[c].body.t = "rejected"
                \/ ~calls[c].fetched.value.ok /\ LoggerFails
            /\ ( /\ calls[c].fetched.t = "resolved"
                 /\ calls[c].body.t = "resolved"
                 /\ calls[c].fetched.value.ok \/ ~LoggerFails ) =>
                /\ calls[c].result.t = "resolved"
                /\ ~calls[c].fetched.value.ok =>
                    HasEnvelopeShape(calls[c].result.value)
                /\ calls[c].fetched.value.ok =>
                    calls[c].result.value = calls[c].body.value

C20_Witness ==
    \E c \in Calls :
        /\ calls[c].op = "fraud"
        /\ ReadErrorText(c)
        /\ enableErrorLogging
        /\ ~logger.throws
        /\ calls[c].result.t = "resolved"
        /\ HasEnvelopeShape(calls[c].result.value)

-----------------------------------------------------------------------------
(* C21 *)

\* The response of the call c had ok = true and reading its body as JSON
\* threw.
JsonFailed(c) ==
    /\ calls[c].op \in PublicOperations
    /\ calls[c].fetched.t = "resolved"
    /\ calls[c].fetched.value.ok
    /\ calls[c].body.t = "rejected"

\* C21: when a response has ok = true but parsing its body as JSON throws
\* error e, the operation's promise rejects with e: no failure envelope is
\* synthesized, the call is not reading the body as text, and the logger
\* has not been invoked in it.
C21_ParseErrorPropagates ==
    \A c \in Calls :
        JsonFailed(c) =>
            /\ calls[c].pc = "rejected"
            /\ calls[c].result = Rejected(calls[c].body.reason)
            /\ LoggedIn(c) = {}

C21_Witness ==
    \E c \in Calls :
        /\ calls[c].op = "fraud"
        /\ JsonFailed(c)
        /\ enableErrorLogging
        /\ calls[c].result = Rejected(JError("Invalid JSON"))

-----------------------------------------------------------------------------
(* C22 *)

\* C22: fraud() throws (its promise rejects) when API authentication fails,
\* that is, when the service answers 401 Unauthorized.  The code reads the
\* body text and resolves to the failure envelope instead.
C22_AuthFailureThrows ==
    \A c \in Calls :
        ( /\ calls[c].op = "fraud"
          /\ ReadErrorText(c)
          /\ calls[c].fetched.value.status = 401 ) =>
            calls[c].result.t = "rejected"

-----------------------------------------------------------------------------
(* C23 *)

\* The request a fraud or getTags call sends, given its own arguments.
OwnRequest(c) ==
    IF calls[c].op = "fraud"
    THEN RequestWithBody("POST", url \o "/fraud-api/v2", JSONStringify(calls[c].args[1]))
    ELSE RequestWithoutBody("GET", url \o "/tag-api/v1/tags/" \o calls[c].args[1].s)

\* The call c has settled the way its own HTTP outcome says.
OwnOutcome(c) ==
    IF calls[c].fetched.t = "rejected"
    THEN calls[c].result = Rejected(calls[c].fetched.reason)
    ELSE IF calls[c].body.t = "rejected"
    THEN calls[c].result = Rejected(calls[c].body.reason)
    ELSE IF calls[c].fetched.value.ok
    THEN calls[c].result = Resolved(calls[c].body.value)
    ELSE IF LoggerFails
    THEN calls[c].result.t = "rejected"
    ELSE /\ calls[c].result.t = "resolved"
         /\ IsFailureEnvelope(calls[c].result.value,
                              calls[c].fetched.value.status,
                              calls[c].fetched.value.statusText,
                              calls[c].body.value.s)

\* Every call that was made has issued one request of its own, built from
\* its own arguments, and has settled as its own HTTP outcome says.
EachCallOnItsOwn ==
    \A c \in DOMAIN calls :
        /\ nFetch[c] = IF calls[c].pc = "idle" THEN 0 ELSE 1
        /\ calls[c].pc = "fetch" => network[c] = OwnRequest(c)
        /\ calls[c].pc \in {"resolved", "rejected"} => OwnOutcome(c)

\* A step of one call leaves every other call as it was, and a settled call
\* stays as it settled.
NoInterference ==
    \A c \in DOMAIN calls :
        /\ calls'[c] # calls[c] =>
            \A d \in DOMAIN calls \ {c} :
                /\ calls'[d] = calls[d]
                /\ network'[d] = network[d]
                /\ nFetch'[d] = nFetch[d]
        /\ calls[c].pc \in {"resolved", "rejected"} =>
            calls'[c] = calls[c] /\ nFetch'[c] = nFetch[c]

\* C23: for any number of calls on one client, in any interleaving, each
\* call issues its own request and its outcome is determined only by its own
\* arguments and its own HTTP outcome: N calls produce exactly N requests,
\* and a call that fails does not change the outcome of any earlier,
\* concurrent or later call.
C23_CallsIndependent == []EachCallOnItsOwn /\ [][NoInterference]_vars

C23_Witness ==
    /\ calls[1].pc = "resolved"
    /\ calls[1].fetched.value.ok
    /\ calls[2].pc = "rejected"
    /\ nFetch[1] = 1
    /\ nFetch[2] = 1

-----------------------------------------------------------------------------
(* C24 *)

\* C24: the client configuration (key, url, logging flag, logger) is fixed
\* at construction: no step of a public operation, with any outcome, changes
\* any of the four values.
C24_ConfigurationFixed == [][config' = config]_vars

\* A call has settled on a client whose key and url are as constructed.
C24_Witness ==
    \E c \in Calls :
        /\ calls[c].pc \in {"resolved", "rejected"}
        /\ calls[c].fetched.t = "resolved"
        /\ calls[c].fetched.value.status = 401
        /\ key = ctorArgs.key
        /\ ctorArgs.baseUrl.t = "str" /\ ctorArgs.baseUrl.s # "" /\ url = ctorArgs.baseUrl.s

-----------------------------------------------------------------------------
(* C25 *)

\* C25: the library enforces no timeout: the promise an operation returned
\* settles only after the underlying HTTP call has settled, so for as long
\* as the HTTP call has not completed the promise is pending: it has
\* neither resolved nor rejected.
C25_NoTimeout ==
    \A c \in Calls :
        /\ calls[c].fetched.t \notin {"resolved", "rejected"} =>
            /\ calls[c].result = JUndefined
            /\ calls[c].pc \in {"idle", "fetch"}
        /\ calls[c].pc = "fetch" =>
            /\ calls[c].fetched = JUndefined
            /\ network[c].t = "request"

C25_Witness ==
    \E c \in Calls :
        /\ calls[c].op = "fraud"
        /\ calls[c].pc = "fetch"
        /\ network[c].t = "request"
        /\ calls[c].fetched = JUndefined
        /\ calls[c].result = JUndefined

-----------------------------------------------------------------------------
(* C26 *)

\* The key a call of hmacSha256 is taken to have been made with: the empty
\* string when none was passed.
KeyOrEmpty(k) == IF k = JUndefined THEN JStr("") ELSE k

\* C26: the digest hmacSha256 returns is determined by (message, key), and
\* calling it without a key gives the same digest as calling it with the
\* empty string as key: for every message m, hmacSha256(m) =
\* hmacSha256(m, "").
C26_OmittedKeyIsEmpty ==
    \A i, j \in 1..Len(digests) :
        ( /\ digests[i].message = digests[j].message
          /\ KeyOrEmpty(digests[i].key) = KeyOrEmpty(digests[j].key) ) =>
            digests[i].digest = digests[j].digest

C26_Witness ==
    \E i, j \in 1..Len(digests) :
        /\ digests[i].message = "test message"
        /\ digests[j].message = "test message"
        /\ digests[i].key = JUndefined
        /\ digests[j].key = JStr("")
        /\ digests[i].digest = digests[j].digest

-----------------------------------------------------------------------------
(* C27 *)

PostOperations ==
    {"fraud", "addTags", "updateTags", "deleteTags", "bulkAddTags", "bulkUpdateTags",
     "bulkDeleteTags"}

\* The request of the call c has a body.
HasBody(c) == "body" \in DOMAIN network[c].options

\* C27: a request carries a body exactly when its method is POST: every
\* POST operation (fraud, add/update/delete tags, the bulk variants) sends
\* the JSON serialization of its body record, also when the tag list or the
\* id list is empty or the fraud record has no fields, and no GET or DELETE
\* request carries a body.
C27_BodyIffPost ==
    \A c \in Calls :
        (calls[c].pc = "fetch" /\ calls[c].op \in PublicOperations) =>
            /\ HasBody(c) <=> network[c].options["method"] = "POST"
            /\ network[c].options["method"] = "POST" <=> calls[c].op \in PostOperations
            /\ calls[c].op = "getTags" => network[c].options["method"] = "GET"
            /\ calls[c].op = "removeAllTags" => network[c].options["method"] = "DELETE"
            /\ (calls[c].op = "fraud" /\ calls[c].args = <<JObj(<<>>)>>) =>
                network[c].options["body"] = "{}"
            /\ ( /\ calls[c].op \in {"addTags", "updateTags", "deleteTags"}
                 /\ calls[c].args[2] = JArr(<<>>) ) =>
                network[c].options["body"] = "{\"tags\":[]}"
            /\ ( /\ calls[c].op \in {"bulkAddTags", "bulkUpdateTags", "bulkDeleteTags"}
                 /\ calls[c].args = <<JArr(<<>>), JArr(<<>>)>> ) =>
                network[c].options["body"] = "{\"transaction_ids\":[],\"tags\":[]}"

C27_Witness ==
    \E c \in Calls :
        /\ Sent(c, "fraud", <<JObj(<<>>)>>)
        /\ HasBody(c)
        /\ network[c].options["body"] = "{}"

-----------------------------------------------------------------------------
(* C28 *)

\* Where the call c is, everything before it has happened: a body is read
\* only from a response that arrived (JSON on 2xx, raw text otherwise), the
\* logger is called only with the text that was read, and a promise that
\* has resolved has its body read and, if the call logs, its log call made.
StepsInOrder ==
    \A c \in Calls :
        /\ calls[c].pc # "idle" => nFetch[c] = 1
        /\ calls[c].body.t # "undefined" => calls[c].fetched.t = "resolved"
        /\ calls[c].body.t = "resolved" =>
            IF calls[c].fetched.value.ok
            THEN calls[c].body.value \in JsonBodies
            ELSE calls[c].body.value.t = "str"
        /\ LoggedIn(c) # {} =>
            /\ calls[c].body.t = "resolved"
            /\ ~calls[c].fetched.value.ok
        /\ calls[c].result.t = "resolved" =>
            /\ calls[c].fetched.t = "resolved"
            /\ calls[c].body.t = "resolved"
            /\ (~calls[c].fetched.value.ok /\ enableErrorLogging) => LoggedIn(c) # {}

\* Once the promise of a call has settled, no log call is made in it.
NoLogAfterSettling ==
    \A c \in Calls :
        calls[c].pc \in {"resolved", "rejected"} =>
            {i \in 1..Len(logged') : logged'[i].call = c} = LoggedIn(c)

\* C28: within one call the steps occur in a fixed order: the request is
\* sent, then the response body is fully read (JSON on 2xx, raw text
\* otherwise), then (non-2xx with logging enabled only) the logger is
\* invoked, and only then does the returned promise resolve; the promise
\* never resolves before the body has been read, and a log call never
\* happens after the promise has resolved.
C28_StepsInOrder == []StepsInOrder /\ [][NoLogAfterSettling]_vars

C28_Witness ==
    \E c \in Calls :
        /\ calls[c].op = "addTags"
        /\ calls[c].pc = "resolved"
        /\ ~calls[c].fetched.value.ok
        /\ calls[c].body.value = JStr("rate limited")
        /\ Cardinality(LoggedIn(c)) = 1

-----------------------------------------------------------------------------
(* C29 *)

\* C29: failures of the logger are not handled: if logging is enabled, the
\* response is non-2xx and the logger throws error e, the operation's
\* promise rejects with e instead of resolving to the failure envelope.
C29_LoggerFailureRejects ==
    \A c \in Calls :
        (ReadErrorText(c) /\ enableErrorLogging /\ logger.throws) =>
            /\ calls[c].pc = "rejected"
            /\ calls[c].result.t = "rejected"
            /\ calls[c].result.reason \in LoggerErrors
            /\ LoggedIn(c) # {}

C29_Witness ==
    \E c \in Calls :
        /\ calls[c].op = "getTags"
        /\ ReadErrorText(c)
        /\ ctorArgs.logger = ThrowingLogger
        /\ enableErrorLogging
        /\ calls[c].result = Rejected(JError("logger failed"))

-----------------------------------------------------------------------------
(* C30 *)

\* The base URL of a client constructed with ctorArgs.
GivenBaseUrl ==
    IF ctorArgs.baseUrl.t = "str" /\ ctorArgs.baseUrl.s # ""
    THEN ctorArgs.baseUrl.s
    ELSE "https://api.seon.io/SeonRestService"

\* The request of the call c as its operation, its arguments and the
\* client's key and base URL give it, whatever the logging flag and the
\* logger are.
RequestApartFromLogging(c) ==
    LET op == calls[c].op
        a == calls[c].args
        tagApi == GivenBaseUrl \o "/tag-api/v1/tags/"
        single == JSONStringify(JObj(<< <<"tags", a[2]>> >>))
        bulk == JSONStringify(JObj(<< <<"transaction_ids", a[1]>>, <<"tags", a[2]>> >>))
    IN  CASE op = "fraud" ->
                RequestWithBody("POST", GivenBaseUrl \o "/fraud-api/v2", JSONStringify(a[1]))
          [] op = "addTags" -> RequestWithBody("POST", tagApi \o a[1].s \o "/add", single)
          [] op = "updateTags" -> RequestWithBody("POST", tagApi \o a[1].s \o "/update", single)
          [] op = "deleteTags" -> RequestWithBody("POST", tagApi \o a[1].s \o "/delete", single)
          [] op = "getTags" -> RequestWithoutBody("GET", tagApi \o a[1].s)
          [] op = "removeAllTags" -> RequestWithoutBody("DELETE", tagApi \o a[1].s)
          [] op = "bulkAddTags" -> RequestWithBody("POST", tagApi \o "bulk-add", bulk)
          [] op = "bulkUpdateTags" -> RequestWithBody("POST", tagApi \o "bulk-update", bulk)
          [] op = "bulkDeleteTags" -> RequestWithBody("POST", tagApi \o "bulk-delete", bulk)

\* What the call c settles to as its HTTP outcome alone gives it.
OutcomeApartFromLogging(c) ==
    IF calls[c].fetched.t = "rejected" THEN Rejected(calls[c].fetched.reason)
    ELSE IF calls[c].body.t = "rejected" THEN Rejected(calls[c].body.reason)
    ELSE IF calls[c].fetched.value.ok THEN Resolved(calls[c].body.value)
    ELSE Resolved(JObj(<<
             <<"success", JBool(FALSE)>>,
             <<"error", JObj(<< <<ToString(calls[c].fetched.value.status) \o " - "
                                     \o calls[c].fetched.value.statusText,
                                  calls[c].body.value>> >>)>>,
             <<"data", JUndefined>> >>))

\* C30: logging does not interfere with the result: the request a call
\* sends (method, URL, headers, body) is given by the operation, its
\* arguments, the key and the base URL, and the value or rejection it
\* returns by its HTTP outcome, so two clients that differ only in the
\* logging flag and the logger (one that does not throw) send the identical
\* request and return the identical value or rejection.
C30_LoggingDoesNotInterfere ==
    \A c \in Calls :
        ( /\ calls[c].op \in PublicOperations
          /\ ~(ctorArgs.logger.t = "fn" /\ ctorArgs.logger.throws) ) =>
            /\ calls[c].pc = "fetch" => network[c] = RequestApartFromLogging(c)
            /\ calls[c].pc \in {"resolved", "rejected"} =>
                calls[c].result = OutcomeApartFromLogging(c)

C30_Witness ==
    \E c \in Calls :
        /\ calls[c].op = "updateTags"
        /\ ctorArgs.logger = CustomLogger
        /\ ctorArgs.enableErrorLogging = JBool(TRUE)
        /\ calls[c].pc = "resolved"
        /\ calls[c].fetched.value.status = 429
        /\ LoggedIn(c) # {}
        /\ calls[c].result = OutcomeApartFromLogging(c)

====
